---- MODULE Spec2Model ----
(***************************************************************************)
(* SparklineCanvas (src/src/components/chapters/timeline/                  *)
(* SparklineCanvas.tsx): the Model Builder, the requestAnimationFrame      *)
(* driver, the draw routine, the visibility and resize effects and the     *)
(* hover projection of one mounted component instance.                     *)
(*                                                                         *)
(* Units.  Lengths the code keeps as JavaScript doubles are fixed-point    *)
(* integers here: startX, startY, endX, yFinal, lineWidth, tipRadius,      *)
(* glowRadius and the area alpha are in thousandths (milli-pixels, or      *)
(* thousandths of 1); the raw and eased animation fractions are in         *)
(* thousandths of 1 (0..1000); a painted tip point is in millionths of a   *)
(* pixel (a milli-pixel length times a per-mille fraction).  Time is in    *)
(* milliseconds.  A pending frame callback carries age, the time since the *)
(* renderOnce call that created its chain: age is ts - start of line 203   *)
(* for the timestamp ts of the frame that runs it (performance.now() at    *)
(* line 201 and the frame timestamps are one clock, and only their         *)
(* difference is ever read).                                               *)
(***************************************************************************)
EXTENDS Integers, Sequences, FiniteSets, TLC

VARIABLES
    mounted,    \* the component is mounted (its refs point at DOM nodes)
    props,      \* the props of the latest render
    inView,     \* React state inView (line 35)
    cb,         \* what the memoized renderOnce closes over: the props and
                \* inView of the render that last re-created it (line 212)
    size,       \* wrapper.getBoundingClientRect(), as the host reports it
    charW,      \* host font metric behind ctx.measureText (line 82)
    rawDpr,     \* window.devicePixelRatio (line 187)
    modelRef,   \* modelRef.current (line 31)
    rafRef,     \* rafRef.current (line 27)
    pending,    \* frame callbacks requested for the next frame, in order
    batch,      \* frame callbacks of the frame being run, in order
    hasCleanup, \* the render effect (214-218) returned its cleanup
    ioOn,       \* the IntersectionObserver is observing (line 43)
    roOn,       \* the ResizeObserver is observing (line 228)
    surface,    \* the canvas: backing-store size and what is painted on it
    hover,      \* React state hover (line 32)
    ev,         \* the handler that ran last, and what it did
    nEvents,    \* events delivered so far
    hiddenQuiet, \* history: visibility was lost and, since then, it was not
                \* regained and no resize or prop change was delivered
    sinceEntry  \* history: the time since the surface became visible, while
                \* no frame was painted and no other event was delivered
                \* since then; -1 otherwise

vars == <<mounted, props, inView, cb, size, charW, rawDpr, modelRef, rafRef,
          pending, batch, hasCleanup, ioOn, roOn,
          surface, hover, ev, nEvents, hiddenQuiet, sinceEntry>>

----------------------------------------------------------------------------
(* Bounds of the model. *)

\* Events delivered to one instance while it is mounted: visibility changes,
\* resize notifications, prop changes and pointer events.
MaxEvents == 4

\* Times between two frames (ms).
FrameGaps == {400}

----------------------------------------------------------------------------
(* JavaScript values. *)

Null == [k |-> "null"]
Undef == [k |-> "undefined", v |-> 0]
NaN == [k |-> "NaN", v |-> 0]
PosInf == [k |-> "Infinity", v |-> 1]
NegInf == [k |-> "Infinity", v |-> -1]
Num(n) == [k |-> "number", v |-> n]

\* typeof x === 'number'
IsNumber(x) == x.k \in {"number", "NaN", "Infinity"}

\* typeof x === 'number' && Number.isFinite(x)
IsFiniteNumber(x) == x.k = "number"

Max(a, b) == IF a >= b THEN a ELSE b
Min(a, b) == IF a <= b THEN a ELSE b

\* Math.max(lo, Math.min(hi, x))
Clamp(lo, hi, x) == Max(lo, Min(hi, x))

\* typeof document !== 'undefined': effects and observers run in a browser.
DocumentDefined == TRUE

----------------------------------------------------------------------------
(* Strings are sequences of one-character strings, so that the code's      *)
(* regular expressions and template literals are computed, not assumed.    *)

DigitChars == <<"0", "1", "2", "3", "4", "5", "6", "7", "8", "9">>

IsDigit(c) == \E d \in 1..10 : DigitChars[d] = c

DigitVal(c) == (CHOOSE d \in 1..10 : DigitChars[d] = c) - 1

\* \s of a JavaScript regular expression, over the characters the inputs use.
IsSpace(c) == c = " "

\* A regular expression is a sequence of items: [op |-> "lit"] one
\* character, "opt" (x?), "star" (x*), "plus" (x+) of a character or of a
\* class ("\\s", "\\d"), and "skip", an optional group (?:...)? whose items
\* are the next n ones.
Lit(c) == [op |-> "lit", c |-> c, n |-> 0]
Opt(c) == [op |-> "opt", c |-> c, n |-> 0]
Star(c) == [op |-> "star", c |-> c, n |-> 0]
Plus(c) == [op |-> "plus", c |-> c, n |-> 0]
Skip(n) == [op |-> "skip", c |-> "", n |-> n]

IsClass(c, x) ==
    IF c = "\\s" THEN IsSpace(x) ELSE IF c = "\\d" THEN IsDigit(x) ELSE x = c

\* The positions at which a match of pat that starts at s[i] can end
\* (backtracking explores exactly these).
MatchEnds(pat, s, i) ==
    LET ends[j \in 1..(Len(s) + 1), k \in 1..(Len(pat) + 1)] ==
            IF k > Len(pat) THEN {j}
            ELSE LET here == j <= Len(s) /\ IsClass(pat[k].c, s[j])
                 IN  CASE pat[k].op = "lit" ->
                            IF here THEN ends[j + 1, k + 1] ELSE {}
                       [] pat[k].op = "opt" ->
                            ends[j, k + 1]
                            \cup (IF here THEN ends[j + 1, k + 1] ELSE {})
                       [] pat[k].op = "star" ->
                            ends[j, k + 1]
                            \cup (IF here THEN ends[j + 1, k] ELSE {})
                       [] pat[k].op = "plus" ->
                            IF here
                            THEN ends[j + 1, k] \cup ends[j + 1, k + 1]
                            ELSE {}
                       [] pat[k].op = "skip" ->
                            ends[j, k + 1] \cup ends[j, k + 1 + pat[k].n]
    IN  ends[i, 1]

\* /239,\s*68,\s*68/   (line 73)
RedPattern ==
    <<Lit("2"), Lit("3"), Lit("9"), Lit(","), Star("\\s"), Lit("6"), Lit("8"),
      Lit(","), Star("\\s"), Lit("6"), Lit("8")>>

\* /rgba?\((\s*\d+\s*),(\s*\d+\s*),(\s*\d+\s*)(?:,(\s*\d*\.?\d+\s*))?\)/
\* (line 101)
RgbaPattern ==
    <<Lit("r"), Lit("g"), Lit("b"), Opt("a"), Lit("("),
      Star("\\s"), Plus("\\d"), Star("\\s"), Lit(","),
      Star("\\s"), Plus("\\d"), Star("\\s"), Lit(","),
      Star("\\s"), Plus("\\d"), Star("\\s"),
      Skip(6), Lit(","), Star("\\s"), Star("\\d"), Opt("."), Plus("\\d"),
      Star("\\s"),
      Lit(")")>>

\* regex.test(s): the pattern matches somewhere in s.
RegexTest(pat, s) == \E i \in 1..Len(s) : MatchEnds(pat, s, i) # {}

\* /239,\s*68,\s*68/.test(color)   (line 73)
RedTest(s) == RegexTest(RedPattern, s)

\* The first index at or after i where s holds the character c.
Find(s, i, c) ==
    CHOOSE j \in i..Len(s) : s[j] = c /\ \A k \in i..(j - 1) : s[k] # c

\* parseInt(t, 10) for t = s[i..] whose first characters are spaces and then
\* at least one digit (a captured group \s*\d+\s*).
ParseInt(s, i) ==
    LET a == CHOOSE j \in i..Len(s) :
                 ~IsSpace(s[j]) /\ \A k \in i..(j - 1) : IsSpace(s[k])
        b == CHOOSE j \in a..Len(s) :
                 ~IsDigit(s[j]) /\ \A k \in a..(j - 1) : IsDigit(s[k])
        val[k \in a..b] ==
            IF k = a THEN 0 ELSE val[k - 1] * 10 + DigitVal(s[k - 1])
    IN  val[b]

\* rgbaMatch and baseR, baseG, baseB (lines 101-104): the groups of the
\* leftmost match, or the fallback 16, 185, 129.  The groups 1, 2, 3 of a
\* match lie between its parenthesis and the commas that follow.
BaseRgb(s) ==
    IF ~RegexTest(RgbaPattern, s)
    THEN [ok |-> FALSE, r |-> 16, g |-> 185, b |-> 129]
    ELSE LET i == CHOOSE j \in 1..Len(s) :
                      /\ MatchEnds(RgbaPattern, s, j) # {}
                      /\ \A k \in 1..(j - 1) : MatchEnds(RgbaPattern, s, k) = {}
             g1 == Find(s, i, "(") + 1
             g2 == Find(s, g1, ",") + 1
             g3 == Find(s, g2, ",") + 1
         IN  [ok |-> TRUE, r |-> ParseInt(s, g1), g |-> ParseInt(s, g2),
              b |-> ParseInt(s, g3)]

\* The decimal digits of n >= 0, as a string.
Digits(n) ==
    LET str[k \in Nat] ==
            IF k < 10 THEN <<DigitChars[k + 1]>>
            ELSE str[k \div 10] \o <<DigitChars[(k % 10) + 1]>>
    IN  str[n]

\* The colour strings the inputs use.  A state holds the name of a colour; the
\* regular expressions read its text.
ColorText(name) ==
    CASE name = "rgba(16,185,129,0.8)" ->
           <<"r","g","b","a","(","1","6",",","1","8","5",",","1","2","9",",","0",".","8",")">>
      [] name = "rgba(239,68,68,0.8)" ->
           <<"r","g","b","a","(","2","3","9",",","6","8",",","6","8",",","0",".","8",")">>
      [] name = "rgb(239,68,68)" ->
           <<"r","g","b","(","2","3","9",",","6","8",",","6","8",")">>
      [] name = "rgba(239, 68, 68, 1)" ->
           <<"r","g","b","a","(","2","3","9",","," ","6","8",","," ","6","8",","," ","1",")">>
      [] name = "rgba(239 ,68,68,1)" ->
           <<"r","g","b","a","(","2","3","9"," ",",","6","8",",","6","8",",","1",")">>
      [] name = "rgba(10,239,68,68)" ->
           <<"r","g","b","a","(","1","0",",","2","3","9",",","6","8",",","6","8",")">>
      [] name = "rgba(59,130,246,1)" ->
           <<"r","g","b","a","(","5","9",",","1","3","0",",","2","4","6",",","1",")">>
      [] name = "red" -> <<"r","e","d">>
      [] name = "#ef4444" -> <<"#","e","f","4","4","4","4">>
      [] name = "239,68,68" -> <<"2","3","9",",","6","8",",","6","8">>

\* color = 'rgba(16,185,129,0.8)' (line 24)
DefaultColor == "rgba(16,185,129,0.8)"
RedColor == "rgba(239,68,68,0.8)"

ColorNames == {DefaultColor, RedColor}

\* Further colour strings a caller can pass: the regular expression of line
\* 101 matches the first five and none of the last three.
ParseableColors ==
    {"rgb(239,68,68)", "rgba(239, 68, 68, 1)", "rgba(239 ,68,68,1)",
     "rgba(10,239,68,68)", "rgba(59,130,246,1)"}
UnparseableColors == {"red", "#ef4444", "239,68,68"}

AllColors == ColorNames \cup ParseableColors \cup UnparseableColors

\* The two regular expressions on every colour, computed once.
RedTestOf == [n \in AllColors |-> RedTest(ColorText(n))]
BaseRgbOf == [n \in AllColors |-> BaseRgb(ColorText(n))]

----------------------------------------------------------------------------
(* Inputs. *)

\* Props of SparklineCanvas (lines 5-21, 24).  color is the prop after its
\* default is applied; compact is its truthiness; xLabels is <<>> when absent.
PercentValues == {Num(250), Num(900)}
ColorValues == ColorNames
XLabelValues == {<<>>, <<"2019", "2024">>}
DurationValues == {Undef, Num(50)}
LineWidthValues == {Undef, Num(3000)}
GlowRadiusValues == {Undef, Num(4000)}
AreaAlphaValues == {Undef, Num(500)}

DefaultProps ==
    [percent |-> Num(250), xLabels |-> <<>>, color |-> DefaultColor,
     compact |-> FALSE, durationMs |-> Undef, lineWidth |-> Undef,
     glowRadius |-> Undef, areaAlpha |-> Undef]

InitProps == {DefaultProps, [DefaultProps EXCEPT !.durationMs = Num(50)]}

\* Sizes the host reports for the wrapper (CSS pixels).
Sizes == {[w |-> 300, h |-> 120], [w |-> 600, h |-> 120]}

\* Width of one character of the 12px label font, as measureText reports it.
CharWidths == {7}

\* window.devicePixelRatio
DevicePixelRatios == {3}

----------------------------------------------------------------------------
(* Model Builder (lines 69-114). *)

\* `${p >= 0 ? '+' : ''}${Math.round(p)}%`   (line 79)
Label(p) == (IF p >= 0 THEN <<"+">> ELSE <<>>) \o Digits(p) \o <<"%">>

\* ctx.measureText(label).width   (line 82)
MeasureText(text, cw) == cw * Len(text)

\* typeof override === 'number' ? override : default   (lines 108, 110)
Override(x, dflt) == IF IsNumber(x) THEN x ELSE Num(dflt)

\* typeof a === 'number' ? Math.max(0, Math.min(1, a)) : default  (line 105),
\* in thousandths.
AreaStartAlpha(a, compact) ==
    IF IsNumber(a)
    THEN IF a.k = "NaN" THEN NaN
         ELSE IF a.k = "Infinity" THEN (IF a.v > 0 THEN Num(1000) ELSE Num(0))
         ELSE Num(Clamp(0, 1000, a.v))
    ELSE Num(IF compact THEN 80 ELSE 120)

\* A duration taken as given.
DurationUnclamped(d) == IF IsFiniteNumber(d) THEN d.v ELSE 980

\* line 111
Duration(d) ==
    IF IsFiniteNumber(d) THEN Max(200, Min(4000, d.v)) ELSE 980

\* `rgba(${baseR},${baseG},${baseB},${alpha})`   (lines 106-107)
Rgba(base, alpha) == [r |-> base.r, g |-> base.g, b |-> base.b, a |-> alpha]

\* A builder that reads a missing metric as 0.
PRawZero(percent) == IF IsFiniteNumber(percent) THEN percent.v ELSE 0

\* pRaw (line 70)
PRaw(percent) == IF IsFiniteNumber(percent) THEN percent.v ELSE 100

\* An end of the line that is not floored at its start.
EndXUnfloored(startX, cssW, padX, rightGutter) == cssW - padX - rightGutter

\* An end of the line that follows half of the container width.
EndXHalf(startX, cssW, padX, rightGutter) ==
    Max(startX, (cssW \div 2) - padX - rightGutter)

\* endX (line 93)
EndX(startX, cssW, padX, rightGutter) == Max(startX, cssW - padX - rightGutter)

\* A drawable height that forgets the bottom padding.
HDrawNoBottom(cssH, padTop, padBottom) == Max(1, cssH - padTop)

\* Hdraw (line 95)
HDraw(cssH, padTop, padBottom) == Max(1, cssH - padTop - padBottom)

\* A vertical mapping that grows downwards with the metric.
YFinalDown(padTop, normFinal, Hdraw) == padTop * 1000 + normFinal * Hdraw

\* yFinal (line 98) in milli-pixels, for normFinal in thousandths.
YFinal(padTop, normFinal, Hdraw) == padTop * 1000 + (1000 - normFinal) * Hdraw

buildModel(P, cssW, cssH, cw) ==
    LET pRaw == PRaw(P.percent)
        p == Max(0, Min(1000, pRaw))
        stroke == P.color
        glow == IF RedTestOf[P.color]
                THEN "rgba(239,68,68,0.9)" ELSE "rgba(16,185,129,0.9)"
        padTop == IF P.compact THEN 6 ELSE 10
        padBottom == IF P.compact THEN 14 ELSE 18
        padX == IF P.compact THEN 8 ELSE 10
        label == Label(p)
        labelWidth == MeasureText(label, cw)
        rightGutterBase == IF P.compact THEN 30 ELSE 36
        rightGutter == Max(rightGutterBase, labelWidth + 18)
        leftAxis == (IF P.compact THEN 16 ELSE 20) + 8
        startX == padX + leftAxis
        endX == EndX(startX, cssW, padX, rightGutter)
        Hdraw == HDraw(cssH, padTop, padBottom)
        normFinal == Max(0, Min(1000, p))
        startY == cssH - padBottom - 1
        yFinal == YFinal(padTop, normFinal, Hdraw)
    IN  [width |-> cssW, height |-> cssH, padTop |-> padTop,
         padBottom |-> padBottom, padX |-> padX, strokeColor |-> stroke,
         tipGlowColor |-> glow, label |-> label, labelWidth |-> labelWidth,
         startX |-> startX * 1000, startY |-> startY * 1000,
         endX |-> endX * 1000, yFinal |-> yFinal,
         areaStartColor |-> Rgba(BaseRgbOf[stroke],
                                 AreaStartAlpha(P.areaAlpha, P.compact)),
         areaEndColor |-> Rgba(BaseRgbOf[stroke], Num(0)),
         lineWidth |-> Override(P.lineWidth, IF P.compact THEN 1200 ELSE 1400),
         tipRadius |-> IF P.compact THEN 1900 ELSE 2400,
         glowRadius |-> Override(P.glowRadius, IF P.compact THEN 8000 ELSE 10000),
         duration |-> Duration(P.durationMs)]

----------------------------------------------------------------------------
(* Easing and the Draw Routine (lines 116-179). *)

\* 0.5 * (1 - Math.cos(Math.PI * x)) for x in thousandths, 0..1000, rounded
\* to the nearest thousandth.  The cosine is Bhaskara's rational form
\* cos(pi r) ~ (1 - 4 r^2) / (1 + r^2) on [0, 1/2] (exact at 0, 1/3, 1/2,
\* error below 0.002), mirrored on [1/2, 1].
EaseLow(x) == (2500 * x * x + (1000000 + x * x) \div 2) \div (1000000 + x * x)

Ease(x) == IF x <= 500 THEN EaseLow(x) ELSE 1000 - EaseLow(1000 - x)

\* draw(ctx, dpr, model, tt, xLabels): what the canvas shows afterwards.
\* compact is the flag the closure of draw reads on line 175.
draw(dpr, model, tt, xLabels, compact) ==
    LET prog == Ease(Max(0, Min(1000, tt)))
        tipX == model.startX * 1000 + (model.endX - model.startX) * prog
        tipY == model.startY * 1000 + (model.yFinal - model.startY) * prog
    IN  [model |-> model, dpr |-> dpr, tt |-> tt, prog |-> prog,
         tipX |-> tipX, tipY |-> tipY,
         labels |-> IF Len(xLabels) = 2
                    THEN <<[text |-> xLabels[1], x |-> model.padX + 24,
                            y |-> model.height - model.padBottom
                                  + (IF compact THEN 10 ELSE 12)],
                           [text |-> xLabels[2], x |-> model.endX \div 1000,
                            y |-> model.height - model.padBottom
                                  + (IF compact THEN 10 ELSE 12)]>>
                    ELSE <<>>]

Blank == [model |-> Null]

----------------------------------------------------------------------------
(* The frame-callback queue of the host. *)

\* cancelAnimationFrame(h): the callback with handle h leaves the queue; a
\* handle that already ran (or null, 0 here) cancels nothing.
Cancel(q, h) == SelectSeq(q, LAMBDA c : c.h # h)

\* The handle requestAnimationFrame returns while the callbacks q and b are
\* pending: a positive number no pending callback has and that rafRef.current
\* does not hold.  Handles are only ever compared for identity, so which
\* fresh number the host hands out makes no difference; this is the least.
NewHandle(q, b) ==
    LET taken == {q[i].h : i \in 1..Len(q)} \cup {b[i].h : i \in 1..Len(b)}
                 \cup {rafRef}
    IN  CHOOSE h \in 1..(Cardinality(taken) + 1) : h \notin taken

\* The cleanup of the render effect (line 217).
RenderCleanup(q) == IF rafRef # 0 THEN Cancel(q, rafRef) ELSE q

\* A renderOnce that is created anew by every render.
DepsChangedAlways(P, v) == TRUE

\* The dependency list of renderOnce (line 212) differs between the render
\* that created the current renderOnce and a render with props P, inView v.
DepsChanged(P, v) ==
    \/ P.percent # cb.props.percent
    \/ P.color # cb.props.color
    \/ P.xLabels # cb.props.xLabels
    \/ v # cb.inView
    \/ P.compact # cb.props.compact

\* dpr of line 187-188.
Dpr == LET r == IF rawDpr = 0 THEN 1 ELSE rawDpr IN Min(2, Max(1, r))

\* A renderOnce that requests no frame callback.
StartedNoChain(c, q, model) ==
    [surface |-> [w |-> Max(1, model.width * Dpr),
                  h |-> Max(1, model.height * Dpr),
                  styleW |-> model.width, styleH |-> model.height,
                  content |-> Blank],
     modelRef |-> model,
     pending |-> q,
     rafRef |-> NewHandle(q, batch)]

\* Lines 193-210 of renderOnce, for the Model built on line 198: the canvas
\* is resized (which clears it), the Model is cached and the first frame
\* callback of a new chain is requested.
Started(c, q, model) ==
    [surface |-> [w |-> Max(1, model.width * Dpr),
                  h |-> Max(1, model.height * Dpr),
                  styleW |-> model.width, styleH |-> model.height,
                  content |-> Blank],
     modelRef |-> model,
     pending |-> Append(q, [h |-> NewHandle(q, batch), model |-> model,
                            age |-> 0, dpr |-> Dpr, inView |-> c.inView,
                            xLabels |-> c.props.xLabels,
                            compact |-> c.props.compact]),
     rafRef |-> NewHandle(q, batch)]

\* A renderOnce that builds for the measured size as it is.
renderOnceUnfloored(c, q, rect) ==
    Started(c, q, buildModel(c.props, rect.w, rect.h, charW))

\* renderOnce (lines 181-212) as the closure c, with q the callbacks pending
\* when it is called and rect what getBoundingClientRect returns: the values
\* it leaves behind.
renderOnce(c, q, rect) ==
    Started(c, q, buildModel(c.props, Max(1, rect.w), Max(1, rect.h), charW))

\* A build that overwrites endX of the Model already cached.
RenderedInPlace(r) ==
    /\ modelRef' = IF modelRef = Null THEN r.modelRef
                   ELSE [modelRef EXCEPT !.endX = r.modelRef.endX]
    /\ rafRef' = r.rafRef
    /\ surface' = r.surface
    /\ pending' = r.pending

\* The state after a call of renderOnce that left r behind.
Rendered(r) ==
    /\ modelRef' = r.modelRef
    /\ rafRef' = r.rafRef
    /\ surface' = r.surface
    /\ pending' = r.pending

\* raw of line 203, in thousandths, for age = ts - start.
Raw(age, duration) == Min(1000, Max(0, (age * 1000) \div duration))

\* The test of line 206.
Reschedule(raw, c) == raw < 1000 /\ (c.inView \/ ~DocumentDefined)

NoEv == [type |-> "none", raw |-> 0, resched |-> FALSE, h |-> 0]

----------------------------------------------------------------------------
(* The state after mount: the first render ran with inView = false, the    *)
(* intersection effect observes, the render effect returned early (line    *)
(* 215) and the resize effect observes.                                    *)

Init ==
    /\ mounted = TRUE
    /\ props \in InitProps
    /\ inView = FALSE
    /\ cb = [props |-> props, inView |-> FALSE]
    /\ size \in Sizes
    /\ charW \in CharWidths
    /\ rawDpr \in DevicePixelRatios
    /\ modelRef = Null
    /\ rafRef = 0
    /\ pending = <<>>
    /\ batch = <<>>
    /\ hasCleanup = FALSE
    /\ ioOn = TRUE
    /\ roOn = TRUE
    /\ surface = [w |-> 300, h |-> 150, styleW |-> 0, styleH |-> 0,
                  content |-> Blank]
    /\ hover = Null
    /\ ev = NoEv
    /\ nEvents = 0
    /\ hiddenQuiet = FALSE
    /\ sinceEntry = -1

\* An event of the host or the parent can be delivered: no frame is being
\* run (single thread), the instance is mounted.
CanDeliver == mounted /\ batch = <<>> /\ nEvents < MaxEvents

\* The callbacks still pending after the cleanup of the render effect, when
\* the effect registered one.
AfterCleanup == IF hasCleanup THEN RenderCleanup(pending) ELSE pending

\* React commits a render with props P and inView v: renderOnce is re-created
\* when its dependencies changed, and then both effects that depend on it run
\* their cleanups (217, 230) and run again (214-218, 220-237).
Commit(P, v) ==
    /\ props' = P
    /\ inView' = v
    /\ IF DepsChanged(P, v)
       THEN /\ cb' = [props |-> P, inView |-> v]
            /\ roOn' = TRUE
            /\ IF ~v /\ DocumentDefined
               THEN /\ pending' = AfterCleanup
                    /\ hasCleanup' = FALSE
                    /\ UNCHANGED <<modelRef, rafRef, surface>>
               ELSE /\ Rendered(renderOnce([props |-> P, inView |-> v],
                                           AfterCleanup, size))
                    /\ hasCleanup' = TRUE
       ELSE UNCHANGED <<cb, roOn, pending, hasCleanup, modelRef, rafRef,
                        surface>>

\* The IntersectionObserver callback (lines 39-42): setInView(vis).
VisibilityChange(v) ==
    /\ CanDeliver
    /\ ioOn
    /\ v # inView
    /\ Commit(props, v)
    /\ ev' = [NoEv EXCEPT !.type = "visibility"]
    /\ nEvents' = nEvents + 1
    /\ hiddenQuiet' = ~v
    /\ sinceEntry' = IF v THEN 0 ELSE -1
    /\ UNCHANGED <<mounted, size, charW, rawDpr, batch, ioOn, hover>>

\* The parent re-renders the component with one prop changed.
PropChange(P) ==
    /\ CanDeliver
    /\ P # props
    /\ Commit(P, inView)
    /\ ev' = [NoEv EXCEPT !.type = "props"]
    /\ nEvents' = nEvents + 1
    /\ hiddenQuiet' = FALSE
    /\ sinceEntry' = -1
    /\ UNCHANGED <<mounted, size, charW, rawDpr, batch, ioOn, hover>>

\* The props that differ from P in exactly one field.
OneChange(P) ==
    {[P EXCEPT !.percent = x] : x \in PercentValues}
    \cup {[P EXCEPT !.color = x] : x \in ColorValues}
    \cup {[P EXCEPT !.compact = x] : x \in BOOLEAN}
    \cup {[P EXCEPT !.xLabels = x] : x \in XLabelValues}
    \cup {[P EXCEPT !.durationMs = x] : x \in DurationValues}
    \cup {[P EXCEPT !.lineWidth = x] : x \in LineWidthValues}
    \cup {[P EXCEPT !.glowRadius = x] : x \in GlowRadiusValues}
    \cup {[P EXCEPT !.areaAlpha = x] : x \in AreaAlphaValues}

\* The ResizeObserver callback (lines 224-227): the wrapper now measures s.
Resize(s) ==
    /\ CanDeliver
    /\ roOn
    /\ s # size
    /\ size' = s
    /\ Rendered(renderOnce(cb, pending, s))
    /\ ev' = [NoEv EXCEPT !.type = "resize"]
    /\ nEvents' = nEvents + 1
    /\ hiddenQuiet' = FALSE
    /\ sinceEntry' = -1
    /\ UNCHANGED <<mounted, props, inView, cb, charW, rawDpr, batch,
                   hasCleanup, ioOn, roOn, hover>>

\* A frame of the host: time has advanced by dt, and the callbacks requested
\* so far are the ones this frame runs, in the order they were requested.
Frame(dt) ==
    /\ batch = <<>>
    /\ pending # <<>>
    /\ batch' = [i \in 1..Len(pending) |-> [pending[i] EXCEPT !.age = @ + dt]]
    /\ pending' = <<>>
    /\ ev' = [NoEv EXCEPT !.type = "frame"]
    /\ sinceEntry' = IF sinceEntry >= 0 THEN sinceEntry + dt ELSE -1
    /\ UNCHANGED <<mounted, props, inView, cb, size, charW, rawDpr, modelRef,
                   rafRef, hasCleanup, ioOn, roOn, surface, hover,
                   nEvents, hiddenQuiet>>

\* step (lines 202-209), run for the first callback of the running frame.
Step ==
    /\ batch # <<>>
    /\ LET c == Head(batch)
           raw == Raw(c.age, c.model.duration)
           eased == Ease(raw)
           again == Reschedule(raw, c)
       IN  /\ surface' = [surface EXCEPT
                            !.content = draw(c.dpr, c.model, eased, c.xLabels,
                                             c.compact)]
           /\ IF again
              THEN /\ rafRef' = NewHandle(pending, batch)
                   /\ pending' = Append(pending,
                                        [c EXCEPT !.h = NewHandle(pending, batch)])
              ELSE UNCHANGED <<rafRef, pending>>
           /\ ev' = [type |-> "step", raw |-> raw, resched |-> again, h |-> c.h]
    /\ batch' = Tail(batch)
    /\ sinceEntry' = -1
    /\ UNCHANGED <<mounted, props, inView, cb, size, charW, rawDpr, modelRef,
                   hasCleanup, ioOn, roOn, hover, nEvents, hiddenQuiet>>

\* Pointer positions tried against a Model (CSS pixels, relative to the
\* wrapper's left edge): left of the line, its ends, its middle, beyond it.
PointerXs ==
    IF modelRef = Null THEN {0}
    ELSE {0, modelRef.startX \div 1000,
          (modelRef.startX + modelRef.endX) \div 2000,
          modelRef.endX \div 1000, modelRef.endX \div 1000 + 25}

\* const base = typeof m.pValue === 'number' ? m.pValue : 0   (line 253)
HoverBase(m) ==
    IF "pValue" \in DOMAIN m /\ IsNumber(m["pValue"])
    THEN m["pValue"].v ELSE 0

\* A projection that takes the pointer position as it is.
ProjectUnclamped(m, localX) ==
    LET clampedX == localX * 1000
        ratio == IF m.endX = m.startX THEN 0
                 ELSE ((clampedX - m.startX) * 1000) \div (m.endX - m.startX)
        yOnLine == m.startY * 1000 + (m.yFinal - m.startY) * ratio
        base == HoverBase(m)
        pct == Max(0, Min(1000 * 1000, base * ratio))
    IN  [x |-> clampedX, y |-> yOnLine, pct |-> pct, ratio |-> ratio]

\* A projection onto the line as far as it is drawn at the moment.
ProjectAnimated(m, localX) ==
    LET clampedX == Max(m.startX, Min(m.endX, localX * 1000))
        ratio == IF m.endX = m.startX THEN 0
                 ELSE ((clampedX - m.startX) * 1000) \div (m.endX - m.startX)
        drawn == IF surface.content = Blank THEN 0 ELSE surface.content.prog
        yOnLine == m.startY * 1000
                   + (((m.yFinal - m.startY) * drawn) \div 1000) * ratio
        base == HoverBase(m)
        pct == Max(0, Min(1000 * 1000, base * ratio))
    IN  [x |-> clampedX, y |-> yOnLine, pct |-> pct, ratio |-> ratio]

\* The hover state onMouseMove computes (lines 248-255): x in milli-pixels,
\* ratio in thousandths, y in millionths of a pixel, pct in thousandths.
Project(m, localX) ==
    LET clampedX == Max(m.startX, Min(m.endX, localX * 1000))
        ratio == IF m.endX = m.startX THEN 0
                 ELSE ((clampedX - m.startX) * 1000) \div (m.endX - m.startX)
        yOnLine == m.startY * 1000 + (m.yFinal - m.startY) * ratio
        base == HoverBase(m)
        pct == Max(0, Min(1000 * 1000, base * ratio))
    IN  [x |-> clampedX, y |-> yOnLine, pct |-> pct, ratio |-> ratio]

\* onMouseMove (lines 244-256): setHover makes React render again, with the
\* props and inView it has.
MouseMove(localX) ==
    /\ CanDeliver
    /\ hover' = IF modelRef = Null THEN hover ELSE Project(modelRef, localX)
    /\ Commit(props, inView)
    /\ ev' = [NoEv EXCEPT !.type = "mousemove"]
    /\ nEvents' = nEvents + 1
    /\ UNCHANGED <<mounted, size, charW, rawDpr, batch, ioOn, hiddenQuiet,
                   sinceEntry>>

\* A pointer-leave handler that keeps the hover state.
MouseLeaveKeep ==
    /\ CanDeliver
    /\ hover' = hover
    /\ Commit(props, inView)
    /\ ev' = [NoEv EXCEPT !.type = "mouseleave"]
    /\ nEvents' = nEvents + 1
    /\ UNCHANGED <<mounted, size, charW, rawDpr, batch, ioOn, hiddenQuiet,
                   sinceEntry>>

\* onMouseLeave (line 243): setHover(null), and React renders again.
MouseLeave ==
    /\ CanDeliver
    /\ hover' = Null
    /\ Commit(props, inView)
    /\ ev' = [NoEv EXCEPT !.type = "mouseleave"]
    /\ nEvents' = nEvents + 1
    /\ UNCHANGED <<mounted, size, charW, rawDpr, batch, ioOn, hiddenQuiet,
                   sinceEntry>>

\* Unmount: the cleanups of the three effects run (lines 44, 217, 230).
Unmount ==
    /\ CanDeliver
    /\ mounted' = FALSE
    /\ ioOn' = FALSE
    /\ roOn' = FALSE
    /\ pending' = AfterCleanup
    /\ hasCleanup' = FALSE
    /\ ev' = [NoEv EXCEPT !.type = "unmount"]
    /\ hiddenQuiet' = FALSE
    /\ sinceEntry' = -1
    /\ UNCHANGED <<props, inView, cb, size, charW, rawDpr, modelRef, rafRef,
                   batch, surface, hover, nEvents>>

Next ==
    \/ \E v \in BOOLEAN : VisibilityChange(v)
    \/ \E P \in OneChange(props) : PropChange(P)
    \/ \E s \in Sizes : Resize(s)
    \/ \E dt \in FrameGaps : Frame(dt)
    \/ Step
    \/ \E x \in PointerXs : MouseMove(x)
    \/ MouseLeave
    \/ Unmount

Spec == Init /\ [][Next]_vars

\* The frame callbacks run whenever one is due: the host keeps delivering
\* frames while a callback is requested, and a frame runs every callback it
\* holds.
SpecLive ==
    /\ Init
    /\ [][Next]_vars
    /\ WF_vars(\E dt \in FrameGaps : Frame(dt))
    /\ WF_vars(Step)

----------------------------------------------------------------------------
(* The Model Builder over the inputs a caller and a host can hand it: an   *)
(* instance is mounted with any of these props in a container of any of    *)
(* these sizes, and then becomes visible, is resized, runs its frames and  *)
(* is hovered.  The props stay as mounted.                                 *)

\* Events delivered to an instance of SpecBuild.
MaxBuildEvents == 2

BuildPercentValues ==
    {Undef, NaN, PosInf, NegInf, Num(0 - 50), Num(0), Num(100), Num(250),
     Num(900), Num(1000), Num(1500)}
BuildColorValues == AllColors
BuildDurationValues ==
    {Undef, NaN, PosInf, NegInf, Num(0 - 10), Num(50), Num(1500), Num(10000)}
BuildLineWidthValues == {Undef, NaN, PosInf, Num(3000)}
BuildGlowRadiusValues == {Undef, NaN, PosInf, Num(4000)}
BuildAreaAlphaValues == {Undef, NaN, PosInf, NegInf, Num(500), Num(2000)}

\* The props that differ from the defaults in at most one field.
BuildProps ==
    {[DefaultProps EXCEPT !.percent = x] : x \in BuildPercentValues}
    \cup {[DefaultProps EXCEPT !.color = x] : x \in BuildColorValues}
    \cup {[DefaultProps EXCEPT !.compact = x] : x \in BOOLEAN}
    \cup {[DefaultProps EXCEPT !.xLabels = x] : x \in XLabelValues}
    \cup {[DefaultProps EXCEPT !.durationMs = x] : x \in BuildDurationValues}
    \cup {[DefaultProps EXCEPT !.lineWidth = x] : x \in BuildLineWidthValues}
    \cup {[DefaultProps EXCEPT !.glowRadius = x] : x \in BuildGlowRadiusValues}
    \cup {[DefaultProps EXCEPT !.areaAlpha = x] : x \in BuildAreaAlphaValues}

\* Container sizes, with the degenerate ones: one pixel wide, and an empty
\* one measured with a width of zero and a negative height.
BuildSizes ==
    {[w |-> 300, h |-> 120], [w |-> 600, h |-> 120], [w |-> 1, h |-> 120],
     [w |-> 0, h |-> 0 - 4]}

\* Widths of one character of the label font: one for which the label is
\* narrower than the base gutter of line 86, and one for which it is wider.
BuildCharWidths == {2, 7}

InitBuild ==
    /\ mounted = TRUE
    /\ props \in BuildProps
    /\ inView = FALSE
    /\ cb = [props |-> props, inView |-> FALSE]
    /\ size \in BuildSizes
    /\ charW \in BuildCharWidths
    /\ rawDpr \in DevicePixelRatios
    /\ modelRef = Null
    /\ rafRef = 0
    /\ pending = <<>>
    /\ batch = <<>>
    /\ hasCleanup = FALSE
    /\ ioOn = TRUE
    /\ roOn = TRUE
    /\ surface = [w |-> 300, h |-> 150, styleW |-> 0, styleH |-> 0,
                  content |-> Blank]
    /\ hover = Null
    /\ ev = NoEv
    /\ nEvents = 0
    /\ hiddenQuiet = FALSE
    /\ sinceEntry = -1

NextBuild ==
    \/ \E v \in BOOLEAN : nEvents < MaxBuildEvents /\ VisibilityChange(v)
    \/ \E s \in BuildSizes : nEvents < MaxBuildEvents /\ Resize(s)
    \/ \E dt \in FrameGaps : Frame(dt)
    \/ Step
    \/ \E x \in PointerXs : nEvents < MaxBuildEvents /\ MouseMove(x)

SpecBuild == InitBuild /\ [][NextBuild]_vars

----------------------------------------------------------------------------
(* Properties. *)

\* A frame has been painted since the canvas was last cleared.
Painted == surface.content # Blank

\* C1: a step callback only ever paints the cached Model: after every step,
\* the Model on the surface is modelRef.current (the chains of earlier Models
\* were cancelled when the cached one was built).
C1_StepPaintsCachedModel ==
    ev.type = "step" => surface.content.model = modelRef

\* C2: after unmount no step callback, resize callback or intersection
\* callback of the instance runs.
C2_NoCallbackAfterUnmount ==
    ~mounted => ev.type \notin {"step", "resize", "visibility"}

\* C3: a step callback that re-schedules itself runs while the surface is
\* visible (inView as it is when the callback runs).
C3_RescheduleOnlyWhileVisible ==
    (ev.type = "step" /\ ev.resched) => inView

\* C4: between the loss of visibility and its return, while no resize and no
\* prop change is delivered, no step changes the surface: neither its
\* backing store nor what is painted on it.
C4_SurfaceKeptWhileHidden ==
    [][(hiddenQuiet /\ hiddenQuiet') => surface' = surface]_vars

\* C5: the first frame painted after the surface became visible shows the
\* progress of the time elapsed since it became visible, for the duration of
\* the Model it paints.
C5_FirstFrameAfterEntry ==
    [][(sinceEntry >= 0 /\ ev'.type = "step")
         => ev'.raw = Raw(sinceEntry, surface'.content.model.duration)]_vars

\* C6: while the surface is visible, the cached Model is the Model of the
\* current props (all eight inputs) and the current container size.
C6_CachedModelReflectsInputs ==
    (mounted /\ inView)
        => modelRef = buildModel(props, Max(1, size.w), Max(1, size.h), charW)

\* The metric value (0..1000) a Model was built from, read back from its
\* label; 0 - 1 when the label is that of no input value.
BaseMetric(m) ==
    IF \E x \in PercentValues : m.label = Label(Clamp(0, 1000, x.v))
    THEN (CHOOSE x \in PercentValues : m.label = Label(Clamp(0, 1000, x.v))).v
    ELSE 0 - 1

\* C7: the hover state a pointer move leaves behind: at startX the ratio is 0
\* and the value 0; at endX (or beyond it, where the pointer is clamped to
\* endX), with endX > startX, the ratio is 1 and the value is the metric
\* value the cached Model was built from.
C7_HoverProjection ==
    (ev.type = "mousemove" /\ modelRef # Null) =>
        /\ hover.x = modelRef.startX => (hover.ratio = 0 /\ hover.pct = 0)
        /\ (hover.x = modelRef.endX /\ modelRef.endX > modelRef.startX)
             => /\ hover.ratio = 1000
                /\ hover.pct = 1000 * BaseMetric(modelRef)

\* C8: between two Model builds (each build clears the canvas) the progress
\* values painted one after the other never decrease, and each lies in
\* [0, 1].
C8_ProgressMonotone ==
    [][/\ Painted' => surface'.content.tt \in 0..1000
       /\ (Painted /\ Painted') => surface'.content.tt >= surface.content.tt
      ]_vars

\* The animation of the cached Model is Completed: its frame with raw = 1 is
\* on the surface, the tip at (endX, yFinal), and no frame callback is
\* pending.
Completed ==
    /\ pending = <<>>
    /\ batch = <<>>
    /\ Painted
    /\ surface.content.model = modelRef
    /\ surface.content.tt = 1000
    /\ surface.content.tipX = modelRef.endX * 1000
    /\ surface.content.tipY = modelRef.yFinal * 1000

\* A step in which no event is delivered: a frame, a step callback, or
\* nothing.
NoEvent == nEvents' = nEvents /\ mounted' = mounted

\* C9: when from some point on no event is delivered (no resize, prop change,
\* visibility change or unmount) then, frames being delivered, from some
\* point on the animation is Completed if the surface is visible: the frame
\* with raw = 1 of the cached Model is what the surface shows, and nothing is
\* pending.
C9_EventuallyCompleted ==
    <>[][NoEvent]_vars => <>[]((mounted /\ inView) => Completed)

\* C10: the tip a step paints is the linear blend of (startX, startY) and
\* (endX, yFinal) at ease(raw): the easing is applied once.
C10_TipEasedOnce ==
    ev.type = "step" =>
        /\ surface.content.tipX
             = surface.content.model.startX * 1000
               + (surface.content.model.endX - surface.content.model.startX)
                 * Ease(ev.raw)
        /\ surface.content.tipY
             = surface.content.model.startY * 1000
               + (surface.content.model.yFinal - surface.content.model.startY)
                 * Ease(ev.raw)

----------------------------------------------------------------------------
(* Properties of the Model Builder, over SpecBuild: there the props are    *)
(* the ones of the mount, so the cached Model was built from props.        *)

\* The metric the geometry is to use: clamp(p, 0, 1000), with 100 for a
\* metric that is absent, NaN or infinite.
Metric(percent) ==
    IF IsFiniteNumber(percent) THEN Clamp(0, 1000, percent.v) ELSE 100

\* C11: the cached Model is the Model of clamp(p, 0, 1000), and of 100 when
\* p is absent, NaN or infinite: same label, same geometry, same everything
\* as the build for that metric with the same size and style.
C11_MetricClamped ==
    modelRef # Null =>
        /\ modelRef.label = Label(Metric(props.percent))
        /\ modelRef = buildModel([props EXCEPT !.percent = Num(Metric(@))],
                                 modelRef.width, modelRef.height, charW)

\* C11, its case: a Model built for the metric NaN carries the label +100%.
C11_Witness ==
    /\ modelRef # Null
    /\ props.percent = NaN
    /\ modelRef.label = <<"+", "1", "0", "0", "%">>

\* max(1, height - padTop - padBottom) of a Model.
DrawableHeight(m) == Max(1, m.height - m.padTop - m.padBottom)

\* C12: yFinal = padTop + (1 - norm) * drawableHeight with
\* norm = clamp(p, 0, 1000) / 1000 (lengths in milli-pixels, norm in
\* thousandths); for the metric 250 and compact = false that is
\* padTop + 0.75 * drawableHeight.
C12_VerticalMapping ==
    modelRef # Null =>
        /\ modelRef.yFinal
             = modelRef.padTop * 1000
               + (1000 - Metric(props.percent)) * DrawableHeight(modelRef)
        /\ (props.percent = Num(250) /\ ~props.compact)
             => modelRef.yFinal
                  = modelRef.padTop * 1000 + 750 * DrawableHeight(modelRef)

\* C12, its case: metric 250, not compact, 300 x 120: yFinal = 10 + 0.75 * 92.
C12_Witness ==
    /\ modelRef # Null
    /\ props.percent = Num(250) /\ ~props.compact
    /\ modelRef.height = 120
    /\ modelRef.yFinal = 79000

C14_DurationClamped ==
    /\ (inView \/ ev.type = "resize") => modelRef # Null
    /\ modelRef # Null =>
        /\ modelRef.duration \in 200..4000
        /\ IsFiniteNumber(props.durationMs)
             => modelRef.duration = Clamp(200, 4000, props.durationMs.v)
        /\ ~IsFiniteNumber(props.durationMs) => modelRef.duration = 980
        /\ props.durationMs = Num(50) => modelRef.duration = 200
        /\ props.durationMs = Num(10000) => modelRef.duration = 4000
        /\ props.durationMs = Num(1500) => modelRef.duration = 1500

\* C14, its case: a Model built for durationMs = 10000.
C14_Witness ==
    /\ modelRef # Null
    /\ props.durationMs = Num(10000)
    /\ modelRef.duration = 4000

\* The value a Model is to carry for an override x with the compact-derived
\* default dflt: x when it is a finite number, else the default.
FiniteOr(x, dflt) == IF IsFiniteNumber(x) THEN x ELSE Num(dflt)

\* C15: lineWidth, glowRadius and the area alpha of the cached Model are the
\* override when it is a finite number (the alpha within [0, 1]) and the
\* compact-derived default otherwise; each is a finite number.
C15_OverridesFinite ==
    modelRef # Null =>
        /\ modelRef.lineWidth
             = FiniteOr(props.lineWidth, IF props.compact THEN 1200 ELSE 1400)
        /\ modelRef.glowRadius
             = FiniteOr(props.glowRadius,
                        IF props.compact THEN 8000 ELSE 10000)
        /\ modelRef.areaStartColor.a
             = IF IsFiniteNumber(props.areaAlpha)
               THEN Num(Clamp(0, 1000, props.areaAlpha.v))
               ELSE Num(IF props.compact THEN 80 ELSE 120)
        /\ IsFiniteNumber(modelRef.lineWidth)
        /\ IsFiniteNumber(modelRef.glowRadius)
        /\ IsFiniteNumber(modelRef.areaStartColor.a)

\* The r, g, b channels of a colour string the regular expression of line
\* 101 parses.
Channels(color) ==
    <<BaseRgbOf[color].r, BaseRgbOf[color].g, BaseRgbOf[color].b>>

\* C16: for a colour that parses as rgb/rgba, the glow of the cached Model is
\* the red variant exactly when the channels are (239, 68, 68), and the
\* green variant otherwise.
C16_GlowByChannels ==
    (modelRef # Null /\ BaseRgbOf[props.color].ok) =>
        /\ modelRef.tipGlowColor
             \in {"rgba(239,68,68,0.9)", "rgba(16,185,129,0.9)"}
        /\ modelRef.tipGlowColor = "rgba(239,68,68,0.9)"
             <=> Channels(props.color) = <<239, 68, 68>>

\* C17: for a colour that does not parse as rgb/rgba, the colours of the
\* cached Model are the fallback: stroke and area colours of the channels
\* (16, 185, 129), and the green glow.
C17_FallbackColors ==
    (modelRef # Null /\ ~BaseRgbOf[props.color].ok) =>
        /\ BaseRgbOf[modelRef.strokeColor].ok
        /\ Channels(modelRef.strokeColor) = <<16, 185, 129>>
        /\ <<modelRef.areaStartColor.r, modelRef.areaStartColor.g,
             modelRef.areaStartColor.b>> = <<16, 185, 129>>
        /\ <<modelRef.areaEndColor.r, modelRef.areaEndColor.g,
             modelRef.areaEndColor.b>> = <<16, 185, 129>>
        /\ modelRef.tipGlowColor = "rgba(16,185,129,0.9)"

\* C18: in the cached Model, and in the Model of every frame callback,
\* endX >= startX.
C18_EndNotBeforeStart ==
    /\ modelRef # Null => modelRef.endX >= modelRef.startX
    /\ \A i \in 1..Len(pending) :
           pending[i].model.endX >= pending[i].model.startX
    /\ \A i \in 1..Len(batch) : batch[i].model.endX >= batch[i].model.startX

\* C18, its case: a Model built for a container one pixel wide, its endX
\* floored at startX.
C18_Witness ==
    /\ modelRef # Null
    /\ modelRef.width = 1
    /\ size.w = 1
    /\ modelRef.endX = modelRef.startX

\* C19: a resize that keeps the height (metric and style are those of the
\* mount) leaves startX, startY and yFinal of the cached Model as they were
\* and, when endX is above startX before and after, moves endX by the change
\* of the width.
C19_WidthOnlyMovesEndX ==
    [][(ev'.type = "resize" /\ modelRef # Null
        /\ modelRef'.height = modelRef.height)
         => /\ modelRef'.startX = modelRef.startX
            /\ modelRef'.startY = modelRef.startY
            /\ modelRef'.yFinal = modelRef.yFinal
            /\ (modelRef.endX > modelRef.startX
                /\ modelRef'.endX > modelRef'.startX)
                 => modelRef'.endX - modelRef.endX
                      = (modelRef'.width - modelRef.width) * 1000
      ]_vars

\* C19, its case: the resize from 300 to 600 has just rebuilt the Model; the
\* frame callback of the Model of width 300 is still there to compare with,
\* its endX 300 pixels to the left.
C19_Witness ==
    /\ ev.type = "resize"
    /\ modelRef.width = 600
    /\ \E i \in 1..Len(pending) :
           /\ pending[i].model.width = 300
           /\ pending[i].model.height = modelRef.height
           /\ pending[i].model.startX = modelRef.startX
           /\ pending[i].model.endX > pending[i].model.startX
           /\ pending[i].model.endX = modelRef.endX - 300000

\* C20: the logical size of every cached Model is the measured size floored
\* at 1, the canvas is at least one pixel each way, the duration a tick
\* divides by is positive, and the hover projection of a Model whose endX
\* equals startX has ratio 0.
C20_DegenerateSizes ==
    /\ modelRef # Null =>
        /\ modelRef.width = Max(1, size.w) /\ modelRef.width >= 1
        /\ modelRef.height = Max(1, size.h) /\ modelRef.height >= 1
        /\ surface.w >= 1 /\ surface.h >= 1
        /\ modelRef.duration > 0
    /\ (inView \/ ev.type = "resize") => modelRef # Null
    /\ (ev.type = "mousemove" /\ modelRef # Null
        /\ modelRef.endX = modelRef.startX)
         => (hover # Null /\ hover.ratio = 0 /\ hover.x = modelRef.startX)

\* C20, its case: an empty (or negatively measured) container, its Model
\* built for 1 pixel, hovered.
C20_Witness ==
    /\ size.w <= 0
    /\ modelRef # Null
    /\ modelRef.width = 1
    /\ modelRef.endX = modelRef.startX
    /\ ev.type = "mousemove"
    /\ hover # Null
    /\ hover.ratio = 0

----------------------------------------------------------------------------
(* Properties of the handlers. *)

\* The handlers that call renderOnce: the intersection callback and a prop
\* change (through the render effect), and the resize callback.
BuildEvents == {"visibility", "resize", "props"}

C22_PointerOnlyHover ==
    [][ev'.type \in {"mousemove", "mouseleave"}
         => UNCHANGED <<modelRef, rafRef, pending, batch, surface, cb,
                        hasCleanup>>]_vars

\* C22, its case: the pointer has moved over a running animation.
C22_Witness ==
    /\ ev.type = "mousemove"
    /\ hover # Null
    /\ inView
    /\ pending # <<>>
    /\ Painted

\* C23: the cached Model changes only in a handler that calls renderOnce, and
\* then to a whole newly built Model: the build, by the closure, for the
\* measured size.
C23_ModelWrittenByBuild ==
    [][modelRef' # modelRef
         => /\ ev'.type \in BuildEvents
            /\ modelRef' = buildModel(cb'.props, Max(1, size'.w),
                                      Max(1, size'.h), charW)]_vars

\* C23, its case: a Model was cached, a step has painted it, and a resize
\* has replaced it by another one.
C23_Witness ==
    /\ ev.type = "resize"
    /\ modelRef # Null
    /\ \E i \in 1..Len(pending) :
           /\ pending[i].age > 0
           /\ pending[i].model # modelRef

\* C24: the hover state of a pointer move over a cached Model has x within
\* [startX, endX], a ratio within [0, 1] that is 0 when endX equals startX,
\* and a value within [0, 1000] (x in milli-pixels, ratio in thousandths,
\* the value in thousandths of thousandths).
C24_HoverClamped ==
    (ev.type = "mousemove" /\ modelRef # Null) =>
        /\ hover # Null
        /\ hover.x >= modelRef.startX /\ hover.x <= modelRef.endX
        /\ hover.ratio >= 0 /\ hover.ratio <= 1000
        /\ modelRef.endX = modelRef.startX => hover.ratio = 0
        /\ hover.pct >= 0 /\ hover.pct <= 1000 * 1000

\* C24, its case: a pointer at or beyond the end of a line that has a
\* length.
C24_Witness ==
    /\ ev.type = "mousemove"
    /\ modelRef # Null
    /\ modelRef.endX > modelRef.startX
    /\ hover.x = modelRef.endX
    /\ hover.ratio = 1000

\* C25: the step that computes raw = 1 paints the final frame and requests
\* no further frame, and once the final frame of a run is on the surface the
\* surface changes only in a handler that builds.
C25_CompletedRetained ==
    [][/\ (ev'.type = "step" /\ ev'.raw = 1000)
            => (~ev'.resched /\ surface'.content.tt = 1000)
       /\ (Painted /\ surface.content.tt = 1000 /\ surface' # surface)
            => ev'.type \in BuildEvents
      ]_vars

\* C26: the y of the hover state is startY + (yFinal - startY) * ratio of the
\* cached Model (in millionths of a pixel), whatever is painted.
C26_HoverOnFinalLine ==
    (ev.type = "mousemove" /\ modelRef # Null) =>
        hover.y = modelRef.startY * 1000
                  + (modelRef.yFinal - modelRef.startY) * hover.ratio

\* C26, its case: the pointer is at the end of the line while the animation
\* is under way; the hover point is the target, the painted tip is not.
C26_Witness ==
    /\ ev.type = "mousemove"
    /\ modelRef # Null
    /\ Painted
    /\ surface.content.model = modelRef
    /\ surface.content.tt > 0 /\ surface.content.tt < 1000
    /\ hover.ratio = 1000
    /\ hover.y = modelRef.yFinal * 1000
    /\ hover.y # surface.content.tipY

\* C27: at most one frame callback is requested or about to run, and
\* rafRef.current holds the handle of the requested one.
C27_OnePendingCallback ==
    /\ Len(pending) + Len(batch) <= 1
    /\ pending # <<>> => pending[1].h = rafRef

\* C28: in every Model built, yFinal <= startY: the target point is never
\* below the start point on the baseline.
C28_TargetNotBelowStart ==
    modelRef # Null => modelRef.yFinal <= modelRef.startY

\* C29: in every Model built, startY and yFinal lie inside the padded box
\* [padTop, height - padBottom], for every height down to the floored 1.
C29_InsidePaddedBox ==
    modelRef # Null =>
        LET top == modelRef.padTop * 1000
            bottom == (modelRef.height - modelRef.padBottom) * 1000
        IN  /\ top <= modelRef.startY /\ modelRef.startY <= bottom
            /\ top <= modelRef.yFinal /\ modelRef.yFinal <= bottom

\* C30: the hover state is null initially, stays null on a pointer move that
\* finds no Model, is null after every pointer-leave, and becomes a non-null
\* value only in a pointer move that found a cached Model.
C30_HoverLifecycle ==
    /\ hover = Null
    /\ [][/\ ev'.type = "mouseleave" => hover' = Null
          /\ (ev'.type = "mousemove" /\ modelRef = Null) => hover' = Null
          /\ (hover' # hover /\ hover' # Null)
                => (ev'.type = "mousemove" /\ modelRef # Null)
         ]_vars

\* C30, its case: the pointer has left a surface that has a cached Model.
C30_Witness ==
    /\ ev.type = "mouseleave"
    /\ modelRef # Null
    /\ hover = Null

====
